---- MODULE Spec2Model ----
(***************************************************************************)
(* A model of gym_fanorona.envs.state.FanoronaState: the five fields of    *)
(* a board state, its queries (is_done, utility, in_capturing_seq), the    *)
(* bookkeeping operation reset_visited_pos, and the notation codec         *)
(* (get_board_str / set_from_board_str).                                   *)
(*                                                                         *)
(* Strings are sequences of one-character strings, so that formatting and  *)
(* parsing are computed character by character, as the code does.  Python  *)
(* indexes rows and columns from 0; the grids of the model are sequences   *)
(* indexed from 1, and every access adds 1 to a Python index.              *)
(***************************************************************************)
EXTENDS Integers, Sequences, FiniteSets, TLC

VARIABLES board_state, turn_to_play, last_dir, visited, half_moves,
          op, arg, ret, enc_src, origin

vars == <<board_state, turn_to_play, last_dir, visited, half_moves,
          op, arg, ret, enc_src, origin>>

(***************************************************************************)
(* constants.py and enums.py (imported at state.py:5-6)                    *)
(***************************************************************************)
BOARD_ROWS == 5
BOARD_COLS == 9
MOVE_LIMIT == 45

\* Piece is an IntEnum: the grid is an int8 array holding its values.
WHITE == 0
BLACK == 1
EMPTY == 2
Pieces == {WHITE, BLACK, EMPTY}
Sides == {WHITE, BLACK}

\* Direction: the eight compass directions and the sentinel X ("none").
X == "X"
Directions == {"SW", "S", "SE", "W", "E", "NW", "N", "NE", X}

\* Reward tags.
WIN == "WIN"
LOSS == "LOSS"
DRAW == "DRAW"

\* Python's None (board_state and visited before they are assigned).
None == <<>>

(***************************************************************************)
(* Results of calls.  Every result is a record with a kind, so that values *)
(* of different shapes are never compared with each other.                 *)
(***************************************************************************)
NoResult == [kind |-> "none"]
Raise(e) == [kind |-> "error", val |-> e]
RetBool(b) == [kind |-> "bool", val |-> b]
RetInt(n) == [kind |-> "int", val |-> n]
RetReward(r) == [kind |-> "reward", val |-> r]
RetStr(s) == [kind |-> "str", val |-> s]
RetOk == [kind |-> "ok"]
IsError(r) == r.kind = "error"

(***************************************************************************)
(* Characters, decimal formatting and parsing                              *)
(***************************************************************************)
DigitChars == <<"0", "1", "2", "3", "4", "5", "6", "7", "8", "9">>
ColLetters == <<"A", "B", "C", "D", "E", "F", "G", "H", "I">>

IsDigit(ch) == \E i \in 1..10 : DigitChars[i] = ch
DigitVal(ch) == (CHOOSE i \in 1..10 : DigitChars[i] = ch) - 1

\* str(n) of an int
RECURSIVE StrNat(_)
StrNat(n) == IF n < 10 THEN <<DigitChars[n + 1]>>
             ELSE StrNat(n \div 10) \o <<DigitChars[(n % 10) + 1]>>
StrInt(n) == IF n < 0 THEN <<"-">> \o StrNat(-n) ELSE StrNat(n)

\* int(s) of a string without surrounding blanks: an optional sign and
\* one or more decimal digits; anything else raises ValueError.
RECURSIVE NatOfDigits(_, _)
NatOfDigits(s, acc) == IF s = <<>> THEN acc
                       ELSE NatOfDigits(Tail(s), 10 * acc + DigitVal(Head(s)))
AllDigits(s) == s # <<>> /\ \A i \in 1..Len(s) : IsDigit(s[i])
IntParses(s) == \/ AllDigits(s)
                \/ s # <<>> /\ Head(s) \in {"-", "+"} /\ AllDigits(Tail(s))
IntOf(s) == IF Head(s) = "-" THEN 0 - NatOfDigits(Tail(s), 0)
            ELSE IF Head(s) = "+" THEN NatOfDigits(Tail(s), 0)
            ELSE NatOfDigits(s, 0)

\* sep.join(parts)
RECURSIVE Join(_, _)
Join(parts, sep) == IF parts = <<>> THEN <<>>
                    ELSE IF Len(parts) = 1 THEN parts[1]
                    ELSE parts[1] \o sep \o Join(Tail(parts), sep)

\* s.split(sep) for a one-character separator: the pieces between
\* consecutive separators, empty pieces kept.
Split(s, sep) ==
    LET at == SelectSeq([i \in 1..Len(s) |-> i], LAMBDA i : s[i] = sep)
        cuts == <<0>> \o at \o <<Len(s) + 1>>
    IN  [k \in 1..(Len(cuts) - 1) |-> SubSeq(s, cuts[k] + 1, cuts[k + 1] - 1)]

\* s.split(): runs of blanks separate the fields, empty pieces are dropped.
SplitBlank(s) == SelectSeq(Split(s, " "), LAMBDA f : f # <<>>)

\* s.rstrip(ch)
RECURSIVE RStrip(_, _)
RStrip(s, ch) == IF s # <<>> /\ s[Len(s)] = ch
                 THEN RStrip(SubSeq(s, 1, Len(s) - 1), ch)
                 ELSE s

(***************************************************************************)
(* enums.py: Piece and Direction                                           *)
(***************************************************************************)
\* str(Piece(p))
PieceStr(p) == IF p = WHITE THEN "W" ELSE IF p = BLACK THEN "B" ELSE "E"

\* Piece.other()
Other(p) == IF p = WHITE THEN BLACK ELSE WHITE

\* str(Direction(d)): the member's name, "-" for X
DirName(d) == CASE d = "SW" -> <<"S", "W">>
                [] d = "S"  -> <<"S">>
                [] d = "SE" -> <<"S", "E">>
                [] d = "W"  -> <<"W">>
                [] d = "E"  -> <<"E">>
                [] d = "NW" -> <<"N", "W">>
                [] d = "N"  -> <<"N">>
                [] d = "NE" -> <<"N", "E">>
                [] d = X    -> <<"X">>
DirStr(d) == IF d = X THEN <<"-">> ELSE DirName(d)

\* Direction[name]: lookup by member name, KeyError when there is none
DirKnown(s) == \E d \in Directions : DirName(d) = s
DirOf(s) == CHOOSE d \in Directions : DirName(d) = s

(***************************************************************************)
(* position.py: Position                                                   *)
(***************************************************************************)
\* Position.pos_range(): row-major order, as (row, col) pairs from 0
Positions == {<<r, c>> : r \in 0..(BOARD_ROWS - 1), c \in 0..(BOARD_COLS - 1)}
pos_range == [i \in 1..(BOARD_ROWS * BOARD_COLS) |->
                 <<(i - 1) \div BOARD_COLS, (i - 1) % BOARD_COLS>>]

\* Position((row, col)).to_human(): column letter, then one-based row number
to_human(pos) == <<ColLetters[pos[2] + 1]>> \o StrNat(pos[1] + 1)

\* Position(human): is the label one of the board's labels?
HumanValid(h) == /\ Len(h) = 2
                 /\ \E c \in 1..BOARD_COLS : ColLetters[c] = h[1]
                 /\ IsDigit(h[2])
                 /\ DigitVal(h[2]) \in 1..BOARD_ROWS
\* Position(human).to_coords()
to_coords(h) == <<DigitVal(h[2]) - 1,
                  (CHOOSE c \in 1..BOARD_COLS : ColLetters[c] = h[1]) - 1>>

(***************************************************************************)
(* FanoronaState: a state as a record of its five fields                   *)
(***************************************************************************)
Self == [board_state |-> board_state, turn_to_play |-> turn_to_play,
         last_dir |-> last_dir, visited |-> visited, half_moves |-> half_moves]

\* np.zeros(shape=(BOARD_ROWS, BOARD_COLS))
Zeros == [r \in 1..BOARD_ROWS |-> [c \in 1..BOARD_COLS |-> 0]]

\* get_piece(position)
get_piece(s, pos) == s.board_state[pos[1] + 1][pos[2] + 1]

\* count(side)
count(s, side) ==
    Cardinality({i \in DOMAIN pos_range : get_piece(s, pos_range[i]) = side})

\* other_side()
other_side(s) == Other(s.turn_to_play)

\* in_capturing_seq() reading the visited grid instead of last_dir
InCapturingSeqByVisited(s) ==
    IF s.visited = None THEN FALSE
    ELSE \E r \in 1..BOARD_ROWS, c \in 1..BOARD_COLS : s.visited[r][c] # 0

\* in_capturing_seq()
in_capturing_seq(s) == s.last_dir # X

\* piece_exists(piece)
piece_exists(s, piece) ==
    \E i \in DOMAIN pos_range : get_piece(s, pos_range[i]) = piece

\* is_done() with the move limit compared by > instead of >=
IsDoneStrictLimit(s) ==
    IF s.half_moves > MOVE_LIMIT THEN TRUE
    ELSE LET own_piece_exists == piece_exists(s, s.turn_to_play)
             other_piece_exists == piece_exists(s, other_side(s))
         IN  IF own_piece_exists /\ other_piece_exists THEN FALSE ELSE TRUE

\* is_done()
is_done(s) ==
    IF s.half_moves >= MOVE_LIMIT THEN TRUE
    ELSE LET own_piece_exists == piece_exists(s, s.turn_to_play)
             other_piece_exists == piece_exists(s, other_side(s))
         IN  IF own_piece_exists /\ other_piece_exists THEN FALSE ELSE TRUE

\* utility(side) naming the side to move the winner of every finished game
UtilityMoverWins(s, side) ==
    IF s.half_moves >= MOVE_LIMIT THEN RetReward(DRAW)
    ELSE IF is_done(s)
         THEN IF side = s.turn_to_play THEN RetReward(WIN) ELSE RetReward(LOSS)
         ELSE RetInt(count(s, side) - count(s, Other(side)))

\* utility(side) testing for a finished game before testing the move limit
UtilityDrawLast(s, side) ==
    IF ~(piece_exists(s, WHITE) /\ piece_exists(s, BLACK))
    THEN LET winner == IF piece_exists(s, s.turn_to_play)
                       THEN s.turn_to_play ELSE other_side(s)
         IN  IF side = winner THEN RetReward(WIN) ELSE RetReward(LOSS)
    ELSE IF s.half_moves >= MOVE_LIMIT THEN RetReward(DRAW)
    ELSE RetInt(count(s, side) - count(s, Other(side)))

\* utility(side): a Reward tag or a plain int
utility(s, side) ==
    IF s.half_moves >= MOVE_LIMIT THEN RetReward(DRAW)
    ELSE IF is_done(s)
         THEN LET winner == IF piece_exists(s, s.turn_to_play)
                            THEN s.turn_to_play ELSE other_side(s)
              IN  IF side = winner THEN RetReward(WIN) ELSE RetReward(LOSS)
         ELSE RetInt(count(s, side) - count(s, Other(side)))

\* What is_done() and utility() raise instead of returning: past the move
\* limit test they scan the grid (None is not subscriptable) and call
\* Piece.other() on the side to move (which fails on EMPTY).
ScanError(s) ==
    IF s.half_moves >= MOVE_LIMIT THEN None
    ELSE IF s.board_state = None THEN <<"TypeError">>
    ELSE IF s.turn_to_play \notin Sides THEN <<"InvalidPieceConversion">>
    ELSE None

\* reset_visited_pos() stopping one position short of the end of pos_range
ClearAllButLast(v) ==
    [r \in 1..Len(v) |-> [c \in 1..Len(v[r]) |->
        IF \E i \in 1..(Len(pos_range) - 1) : pos_range[i] = <<r - 1, c - 1>>
        THEN 0 ELSE v[r][c]]]

\* reset_visited_pos(): every position of pos_range is set to 0
ClearAll(v) ==
    [r \in 1..Len(v) |-> [c \in 1..Len(v[r]) |->
        IF \E i \in DOMAIN pos_range : pos_range[i] = <<r - 1, c - 1>>
        THEN 0 ELSE v[r][c]]]
reset_visited_pos(s) == [s EXCEPT !.visited = ClearAll(s.visited)]

(***************************************************************************)
(* get_board_str(): the notation of a state                                *)
(***************************************************************************)
\* The loops of state.py:154-168 keep two variables, board_string and
\* count.  Each operator below returns what a stretch of the loop appends to
\* board_string (str) and the count it leaves (cnt), given the count it
\* starts with.

\* the pending count written out without the test for a positive count
FlushAlways(cnt) == StrInt(cnt)

\* the pending count, written out when it is positive (state.py:161-162)
Flush(cnt) == IF cnt > 0 THEN StrInt(cnt) ELSE <<>>

\* the inner loop over the cells i.. of one row (state.py:156-164)
RECURSIVE EncodeCells(_, _, _)
EncodeCells(row, i, cnt) ==
    IF i > Len(row) THEN [str |-> <<>>, cnt |-> cnt]
    ELSE IF row[i] = EMPTY
         THEN EncodeCells(row, i + 1, cnt + 1)
         ELSE LET rest == EncodeCells(row, i + 1, 0)
              IN  [str |-> Flush(cnt) \o <<PieceStr(row[i])>> \o rest.str,
                   cnt |-> rest.cnt]

\* the end of a row without the flush: the count runs on into the next row
EndOfRowNoFlush(a) == [str |-> a.str \o <<"/">>, cnt |-> a.cnt]

\* the end of a row (state.py:165-168): the pending count is written out
\* and reset, and "/" is added
EndOfRow(a) == [str |-> a.str \o Flush(a.cnt) \o <<"/">>, cnt |-> 0]

\* the outer loop over the rows r.. (state.py:155-168)
RECURSIVE EncodeRows(_, _, _)
EncodeRows(board, r, cnt) ==
    IF r > Len(board) THEN [str |-> <<>>, cnt |-> cnt]
    ELSE LET a == EndOfRow(EncodeCells(board[r], 1, cnt))
             rest == EncodeRows(board, r + 1, a.cnt)
         IN  [str |-> a.str \o rest.str, cnt |-> rest.cnt]

\* the board field (state.py:153-171)
EncodeBoard(board) ==
    LET a == EncodeRows(board, 1, 0)
        stripped == RStrip(a.str, "/")
    IN  IF a.cnt > 0 THEN stripped \o StrInt(a.cnt) ELSE stripped

\* the visited field (state.py:176-183)
VisitedLabels(v) ==
    LET marked == SelectSeq(pos_range, LAMBDA p : v[p[1] + 1][p[2] + 1] # 0)
    IN  [i \in 1..Len(marked) |-> to_human(marked[i])]
EncodeVisited(v) ==
    IF VisitedLabels(v) = <<>> THEN <<"-">> ELSE Join(VisitedLabels(v), <<",">>)

get_board_str(s) ==
    Join(<<EncodeBoard(s.board_state),
           <<PieceStr(s.turn_to_play)>>,
           DirStr(s.last_dir),
           EncodeVisited(s.visited),
           StrInt(s.half_moves)>>, <<" ">>)

(***************************************************************************)
(* set_from_board_str(board_string): a new state from a notation           *)
(***************************************************************************)
\* an index of the int8 grid that numpy accepts
InGrid(row, col) == row < BOARD_ROWS /\ col < BOARD_COLS

\* the loop over the cells of one row string (state.py:104-113), on the
\* grid's row `cols`; row and col_board count from 0
RECURSIVE DecodeCells(_, _, _, _, _)
DecodeCells(cols, row, cells, i, col_board) ==
    IF i > Len(cells) THEN [kind |-> "row", val |-> cols]
    ELSE LET cell == cells[i] IN
         IF cell \in {"W", "B"}
         THEN IF ~InGrid(row, col_board) THEN Raise(<<"IndexError">>)
              ELSE DecodeCells(
                       [cols EXCEPT ![col_board + 1] =
                                        IF cell = "W" THEN WHITE ELSE BLACK],
                       row, cells, i + 1, col_board + 1)
         ELSE IF ~IsDigit(cell) THEN Raise(<<"ValueError">>)
         ELSE LET n == DigitVal(cell) IN
              IF n = 0
              THEN DecodeCells(cols, row, cells, i + 1, col_board + 1)
              ELSE IF ~InGrid(row, col_board + n - 1)
                   THEN Raise(<<"IndexError">>)
                   ELSE DecodeCells(
                            [c \in 1..BOARD_COLS |->
                                IF c - 1 \in col_board..(col_board + n - 1)
                                THEN EMPTY ELSE cols[c]],
                            row, cells, i + 1, (col_board + n - 1) + 1)

\* state.py:99-114: each row string is decoded onto its row of the zeroed
\* grid (a row string past the grid writes nothing or raises); the first
\* error ends the call
process_board_state_str(board_state_str) ==
    LET row_strings == Split(board_state_str, "/")
        done == [r \in 1..Len(row_strings) |->
                    DecodeCells(IF r <= BOARD_ROWS THEN Zeros[r] ELSE <<>>,
                                r - 1, row_strings[r], 1, 0)]
        failed == {r \in 1..Len(row_strings) : IsError(done[r])}
    IN  IF failed # {}
        THEN done[CHOOSE r \in failed : \A q \in failed : r <= q]
        ELSE [kind |-> "board",
              val |-> [r \in 1..BOARD_ROWS |->
                          IF r <= Len(row_strings) THEN done[r].val
                          ELSE Zeros[r]]]

\* state.py:116-123
RECURSIVE MarkVisited(_, _, _)
MarkVisited(v, visited_pos_list, i) ==
    IF i > Len(visited_pos_list) THEN [kind |-> "visited", val |-> v]
    ELSE LET human_pos == visited_pos_list[i] IN
         IF ~HumanValid(human_pos) THEN Raise(<<"InvalidPosition">>)
         ELSE LET rc == to_coords(human_pos)
              IN  MarkVisited([v EXCEPT ![rc[1] + 1][rc[2] + 1] = 1],
                              visited_pos_list, i + 1)

process_visited_pos_str(visited_pos_str) ==
    IF visited_pos_str # <<"-">>
    THEN MarkVisited(Zeros, Split(visited_pos_str, ","), 1)
    ELSE [kind |-> "visited", val |-> Zeros]

\* state.py:125-139
set_from_board_str(board_string) ==
    LET fields == SplitBlank(board_string) IN
    IF Len(fields) # 5 THEN Raise(<<"ValueError">>)
    ELSE LET board == process_board_state_str(fields[1])
             vis == process_visited_pos_str(fields[4])
         IN  IF IsError(board) THEN board
             ELSE IF fields[3] # <<"-">> /\ ~DirKnown(fields[3])
                  THEN Raise(<<"KeyError">>)
             ELSE IF IsError(vis) THEN vis
             ELSE IF ~IntParses(fields[5]) THEN Raise(<<"ValueError">>)
             ELSE [kind |-> "state",
                   val |-> [board_state |-> board.val,
                            turn_to_play |-> IF fields[2] = <<"W">>
                                             THEN WHITE ELSE BLACK,
                            last_dir |-> IF fields[3] # <<"-">>
                                         THEN DirOf(fields[3]) ELSE X,
                            visited |-> vis.val,
                            half_moves |-> IntOf(fields[5])]]

(***************************************************************************)
(* Inputs: the sample tuples given to the constructor and the notation     *)
(* strings given to set_from_board_str                                     *)
(***************************************************************************)
Rep(x, n) == [i \in 1..n |-> x]

EmptyGrid == Rep(Rep(EMPTY, BOARD_COLS), BOARD_ROWS)
\* the starting position drawn in get_board_str's docstring (state.py:143-151)
StartGrid == <<Rep(WHITE, BOARD_COLS),
               Rep(WHITE, BOARD_COLS),
               <<BLACK, WHITE, BLACK, WHITE, EMPTY, BLACK, WHITE, BLACK, WHITE>>,
               Rep(BLACK, BOARD_COLS),
               Rep(BLACK, BOARD_COLS)>>
\* runs of empty cells at the start, in the middle and at the end of rows,
\* and runs that meet across a row boundary
RunsGrid == <<<<WHITE, EMPTY, EMPTY, EMPTY, BLACK, EMPTY, EMPTY, EMPTY, EMPTY>>,
              <<EMPTY, EMPTY, EMPTY, WHITE, WHITE, EMPTY, EMPTY, BLACK, EMPTY>>,
              Rep(EMPTY, BOARD_COLS),
              <<EMPTY, EMPTY, EMPTY, EMPTY, EMPTY, EMPTY, EMPTY, EMPTY, BLACK>>,
              <<BLACK, EMPTY, WHITE, EMPTY, BLACK, EMPTY, WHITE, EMPTY, EMPTY>>>>

SetCell(g, pos, v) == [g EXCEPT ![pos[1] + 1][pos[2] + 1] = v]

FixtureGrids == {EmptyGrid, StartGrid, RunsGrid}
\* every grid with a single piece, and the starting position with one cell
\* changed
VariedGrids == {SetCell(EmptyGrid, pos, side) : pos \in Positions, side \in Sides}
               \cup {SetCell(StartGrid, pos, v) : pos \in Positions, v \in Pieces}

VisitedOf(marked) ==
    [r \in 1..BOARD_ROWS |-> [c \in 1..BOARD_COLS |->
        IF <<r - 1, c - 1>> \in marked THEN 1 ELSE 0]]
VisitedInputs == {VisitedOf({}), VisitedOf({<<0, 0>>}), VisitedOf({<<4, 8>>}),
                  VisitedOf({<<0, 0>>, <<2, 4>>, <<4, 8>>})}

HalfMovesInputs == {0, 10, MOVE_LIMIT - 1, MOVE_LIMIT, MOVE_LIMIT + 1}

Samples ==
    {<<g, t, d, v, h>> : g \in FixtureGrids, t \in Pieces, d \in Directions,
                         v \in VisitedInputs, h \in HalfMovesInputs}
    \cup {<<g, t, X, VisitedOf({}), 0>> : g \in VariedGrids, t \in Sides}

\* notation strings, written out field by field
Slashed(rows) == Join(rows, <<"/">>)
Record(fields) == Join(fields, <<" ">>)

EmptyBoardStr == Slashed(Rep(<<"9">>, 5))
StartBoardStr == Slashed(<<Rep("W", 9), Rep("W", 9),
                           <<"B", "W", "B", "W", "1", "B", "W", "B", "W">>,
                           Rep("B", 9), Rep("B", 9)>>)
RunsBoardStr == Slashed(<<<<"W", "3", "B", "4">>, <<"3", "W", "W", "2", "B", "1">>,
                          <<"9">>, <<"8", "B">>,
                          <<"B", "1", "W", "1", "B", "1", "W", "2">>>>)

WellFormedInputs ==
    {Record(<<b, t, d, v, h>>) :
        b \in {EmptyBoardStr, StartBoardStr, RunsBoardStr},
        t \in {<<"W">>, <<"B">>},
        d \in {<<"-">>, <<"S", "W">>, <<"N">>},
        v \in {<<"-">>, <<"A", "1">>, <<"A", "1", ",", "E", "3">>},
        h \in {<<"0">>, <<"4", "5">>}}

\* board fields that do not describe 5 rows of 9 cells
BadBoardStrs ==
    {Slashed(Rep(<<"9">>, 4)),                         \* a row too few
     Slashed(Rep(<<"9">>, 6)),                         \* a row too many
     Slashed(Rep(<<"9">>, 5)) \o <<"/">>,              \* an empty sixth row
     Slashed(<<<<"8">>, <<"9">>, <<"9">>, <<"9">>, <<"9">>>>),  \* a short row
     Slashed(<<<<"9">>, <<"9">>, <<"W", "7">>, <<"9">>, <<"9">>>>),
     Slashed(<<<<"9">>, <<"9">>, <<"9">>, <<"9">>, <<"B">>>>),
     Slashed(<<<<"9", "W">>, <<"9">>, <<"9">>, <<"9">>, <<"9">>>>),  \* a long row
     Slashed(<<<<"W", "9">>, <<"9">>, <<"9">>, <<"9">>, <<"9">>>>),
     Slashed(<<<<"9">>, <<"9">>, <<"9">>, <<"9">>, Rep("W", 10)>>),
     Slashed(<<<<"9">>, <<"9">>, <<"9">>, <<"9">>, <<"8", "x">>>>),
     <<>> \o <<"9">>}                                  \* a single row

MalformedInputs ==
    {Record(<<b, <<"W">>, <<"-">>, <<"-">>, <<"0">>>>) : b \in BadBoardStrs}
    \cup {Record(<<EmptyBoardStr, t, <<"-">>, <<"-">>, <<"0">>>>) :
             t \in {<<"X">>, <<"w">>, <<"E">>, <<"W", "B">>, <<"-">>}}
    \cup {Record(<<StartBoardStr, <<"B">>, d, <<"-">>, <<"0">>>>) :
             d \in {<<"Q">>, <<"N", "N">>, <<"n">>, <<"X">>, <<"0">>}}
    \cup {Record(<<StartBoardStr, <<"W">>, <<"N">>, v, <<"0">>>>) :
             v \in {<<"Z", "9">>, <<"A", "0">>, <<"A", "6">>, <<"J", "1">>,
                    <<"A">>, <<"A", "1", ",">>, <<"1", "A">>}}
    \cup {Record(<<EmptyBoardStr, <<"W">>, <<"-">>, <<"-">>, h>>) :
             h \in {<<"x">>, <<"4", "x">>, <<"-">>}}
    \cup {Record(<<EmptyBoardStr, <<"W">>, <<"-">>, <<"-">>>>),
          Record(<<EmptyBoardStr, <<"W">>, <<"-">>, <<"-">>, <<"0">>, <<"0">>>>),
          <<>>}

Inputs == WellFormedInputs \cup MalformedInputs

(***************************************************************************)
(* The state machine: a variable bound to a FanoronaState, and the calls   *)
(* made on it.  op, arg and ret record the last call, its argument and     *)
(* what it returned or raised; enc_src is the state whose notation the     *)
(* last set_from_board_str decoded, when it decoded get_board_str's output; *)
(* origin is what the variable was first bound from.                       *)
(***************************************************************************)
NoArg == [kind |-> "none"]
NoSrc == [kind |-> "none"]

\* FanoronaState(): state.py:11-16
Init ==
    /\ board_state = None
    /\ turn_to_play = EMPTY
    /\ last_dir = X
    /\ visited = None
    /\ half_moves = 0
    /\ op = "__init__"
    /\ arg = NoArg
    /\ ret = NoResult
    /\ enc_src = NoSrc
    /\ origin = [kind |-> "none"]

Bind(s) ==
    /\ board_state' = s.board_state
    /\ turn_to_play' = s.turn_to_play
    /\ last_dir' = s.last_dir
    /\ visited' = s.visited
    /\ half_moves' = s.half_moves

Fields == <<board_state, turn_to_play, last_dir, visited, half_moves>>

\* FanoronaState(sample): state.py:18-23
FromSample(sample) ==
    [board_state |-> sample[1], turn_to_play |-> sample[2],
     last_dir |-> sample[3], visited |-> sample[4], half_moves |-> sample[5]]

\* the program binds its variable once: to FanoronaState(), to
\* FanoronaState(sample) or to the state decoded from a given string
Fresh == op = "__init__" /\ arg = NoArg

NewSample ==
    \E sample \in Samples :
        /\ Fresh
        /\ Bind(FromSample(sample))
        /\ op' = "__init__"
        /\ arg' = [kind |-> "sample"]
        /\ ret' = NoResult
        /\ enc_src' = NoSrc
        /\ origin' = [kind |-> "sample"]

\* state = FanoronaState.set_from_board_str(s), for a given string or for
\* the string get_board_str has just returned
SetFromBoardStr ==
    \E s \in (IF Fresh THEN Inputs ELSE {})
              \cup (IF ret.kind = "str" THEN {ret.val} ELSE {}) :
        LET r == set_from_board_str(s) IN
        /\ op' = "set_from_board_str"
        /\ arg' = [kind |-> "str", val |-> s]
        /\ enc_src' = IF ret.kind = "str" /\ ret.val = s
                      THEN [kind |-> "state", val |-> Self] ELSE NoSrc
        /\ IF IsError(r)
           THEN ret' = r /\ UNCHANGED <<Fields, origin>>
           ELSE /\ ret' = RetOk
                /\ Bind(r.val)
                /\ origin' = IF Fresh THEN [kind |-> "str", val |-> s]
                              ELSE origin

\* str(state)
GetBoardStr ==
    /\ op' = "get_board_str"
    /\ arg' = NoArg
    /\ ret' = IF board_state = None \/ visited = None
              THEN Raise(<<"TypeError">>)
              ELSE RetStr(get_board_str(Self))
    /\ enc_src' = NoSrc
    /\ UNCHANGED <<Fields, origin>>

IsDone ==
    /\ op' = "is_done"
    /\ arg' = NoArg
    /\ ret' = IF ScanError(Self) # None THEN Raise(ScanError(Self))
              ELSE RetBool(is_done(Self))
    /\ enc_src' = NoSrc
    /\ UNCHANGED <<Fields, origin>>

Utility ==
    \E side \in Sides :
        /\ op' = "utility"
        /\ arg' = [kind |-> "piece", val |-> side]
        /\ ret' = IF ScanError(Self) # None THEN Raise(ScanError(Self))
                  ELSE utility(Self, side)
        /\ enc_src' = NoSrc
        /\ UNCHANGED <<Fields, origin>>

InCapturingSeq ==
    /\ op' = "in_capturing_seq"
    /\ arg' = NoArg
    /\ ret' = RetBool(in_capturing_seq(Self))
    /\ enc_src' = NoSrc
    /\ UNCHANGED <<Fields, origin>>

ResetVisitedPos ==
    /\ op' = "reset_visited_pos"
    /\ arg' = NoArg
    /\ enc_src' = NoSrc
    /\ UNCHANGED origin
    /\ IF visited = None
       THEN ret' = Raise(<<"TypeError">>) /\ UNCHANGED Fields
       ELSE ret' = NoResult /\ Bind(reset_visited_pos(Self))

Next ==
    \/ NewSample
    \/ SetFromBoardStr
    \/ GetBoardStr
    \/ IsDone
    \/ Utility
    \/ InCapturingSeq
    \/ ResetVisitedPos

Spec == Init /\ [][Next]_vars

(***************************************************************************)
(* A game: the state is driven past the move limit by the move engine,     *)
(* which is outside this class.  The engine is modelled by what it is      *)
(* allowed to do to the fields: during a capturing sequence it changes the *)
(* grid, records the direction of the capture and marks a visited square;  *)
(* at the end of a turn it clears both, passes the turn and counts a       *)
(* half-move.  The grid it leaves is any grid of GameGrids.                *)
(***************************************************************************)
\* games start Horizon half-moves before the move limit and are followed
\* until Horizon half-moves after it
Horizon == 2

LoneWhite == SetCell(EmptyGrid, <<2, 4>>, WHITE)
LoneBlack == SetCell(EmptyGrid, <<0, 8>>, BLACK)
GameGrids == FixtureGrids \cup {LoneWhite, LoneBlack}
CaptureDirs == {"N", "SW"}
CaptureSquares == {<<0, 0>>, <<2, 4>>}

InitGame ==
    \E g \in GameGrids, t \in Sides :
        /\ board_state = g
        /\ turn_to_play = t
        /\ last_dir = X
        /\ visited = VisitedOf({})
        /\ half_moves = MOVE_LIMIT - Horizon
        /\ op = "__init__"
        /\ arg = [kind |-> "sample"]
        /\ ret = NoResult
        /\ enc_src = NoSrc
        /\ origin = [kind |-> "sample"]

EngineCapture ==
    \E g \in GameGrids, d \in CaptureDirs, p \in CaptureSquares :
        /\ board_state' = g
        /\ last_dir' = d
        /\ visited' = SetCell(visited, p, 1)
        /\ op' = "engine_capture"
        /\ arg' = NoArg
        /\ ret' = NoResult
        /\ UNCHANGED <<turn_to_play, half_moves, enc_src, origin>>

EngineEndTurn ==
    \E g \in GameGrids :
        /\ half_moves < MOVE_LIMIT + Horizon
        /\ board_state' = g
        /\ visited' = reset_visited_pos(Self).visited
        /\ last_dir' = X
        /\ turn_to_play' = other_side(Self)
        /\ half_moves' = half_moves + 1
        /\ op' = "engine_end_turn"
        /\ arg' = NoArg
        /\ ret' = NoResult
        /\ UNCHANGED <<enc_src, origin>>

NextGame ==
    \/ EngineCapture
    \/ EngineEndTurn
    \/ IsDone
    \/ Utility

SpecGame == InitGame /\ [][NextGame]_vars

(***************************************************************************)
(* Properties.  They are stated on the grid and on the characters of the   *)
(* strings, not through the operators that model the code.                 *)
(***************************************************************************)
IsGridOver(g, values) ==
    /\ g # None
    /\ DOMAIN g = 1..BOARD_ROWS
    /\ \A r \in 1..BOARD_ROWS :
          /\ DOMAIN g[r] = 1..BOARD_COLS
          /\ \A c \in 1..BOARD_COLS : g[r][c] \in values

ValidState(s) ==
    /\ IsGridOver(s.board_state, Pieces)
    /\ s.turn_to_play \in Sides
    /\ s.last_dir \in Directions
    /\ IsGridOver(s.visited, {0, 1})
    /\ s.half_moves >= 0

HasPiece(side) ==
    \E r \in 1..BOARD_ROWS, c \in 1..BOARD_COLS : board_state[r][c] = side
NumberOf(side) ==
    Cardinality({p \in Positions : board_state[p[1] + 1][p[2] + 1] = side})
AllFalse(v) == \A r \in 1..BOARD_ROWS, c \in 1..BOARD_COLS : v[r][c] = 0
AtLimit == half_moves >= MOVE_LIMIT

\* the cells a row of the board field stands for
RECURSIVE ExpandRow(_)
ExpandRow(str) ==
    IF str = <<>> THEN <<>>
    ELSE (IF Head(str) = "W" THEN <<WHITE>>
          ELSE IF Head(str) = "B" THEN <<BLACK>>
          ELSE Rep(EMPTY, DigitVal(Head(str)))) \o ExpandRow(Tail(str))

RowChars == {"W", "B"} \cup {DigitChars[i] : i \in 1..10}

\* a board field that describes BOARD_ROWS rows of BOARD_COLS cells
BoardWellFormed(b) ==
    LET rows == Split(b, "/") IN
    /\ Len(rows) = BOARD_ROWS
    /\ \A r \in 1..Len(rows) :
          /\ \A i \in 1..Len(rows[r]) : rows[r][i] \in RowChars
          /\ Len(ExpandRow(rows[r])) = BOARD_COLS

\* C1: round trip.  When set_from_board_str decodes the notation that
\* get_board_str produced for a valid state S, it returns a state equal to
\* S in grid, turn, last direction, visited set and half-move count.
C1_RoundTrip ==
    (op = "set_from_board_str" /\ enc_src.kind = "state"
        /\ ValidState(enc_src.val))
    => (ret = RetOk /\ Self = enc_src.val)

C1_Witness ==
    /\ op = "set_from_board_str"
    /\ enc_src.kind = "state"
    /\ ValidState(enc_src.val)
    /\ board_state = RunsGrid
    /\ turn_to_play = BLACK
    /\ last_dir = "NW"
    /\ visited = VisitedOf({<<0, 0>>, <<2, 4>>, <<4, 8>>})
    /\ half_moves = MOVE_LIMIT + 1

DrawNow(s) ==
    /\ is_done(s)
    /\ utility(s, WHITE) = RetReward(DRAW)
    /\ utility(s, BLACK) = RetReward(DRAW)

Decoded == origin.kind = "str" /\ origin.val \in WellFormedInputs
\* the record's direction field is "-" exactly when its visited field is
ConsistentRecord(s) ==
    (SplitBlank(s)[3] = <<"-">>) <=> (SplitBlank(s)[4] = <<"-">>)

C6_MalformedBoardFails ==
    (op = "set_from_board_str" /\ Len(SplitBlank(arg.val)) = 5
        /\ ~BoardWellFormed(SplitBlank(arg.val)[1]))
    => IsError(ret)

\* C7 as claimed: turn_to_play is WHITE or BLACK in every state.
C7_TurnNeverEmpty == turn_to_play \in Sides

\* C8 as claimed: decoding a five-field record whose turn field is not W or
\* B, or whose direction field is neither "-" nor a direction's name, fails
\* and returns no state.
C8_BadTurnOrDirectionFails ==
    (op = "set_from_board_str" /\ Len(SplitBlank(arg.val)) = 5
        /\ \/ SplitBlank(arg.val)[2] \notin {<<"W">>, <<"B">>}
           \/ /\ SplitBlank(arg.val)[3] # <<"-">>
              /\ \A d \in Directions : DirName(d) # SplitBlank(arg.val)[3])
    => IsError(ret)

\* C9: reset_visited_pos() on a state with a visited grid leaves every entry
\* of visited false and the other four fields unchanged, and a second call
\* changes nothing.
C9_ResetFrame ==
    [][(op' = "reset_visited_pos" /\ visited # None)
       => /\ AllFalse(visited')
          /\ UNCHANGED <<board_state, turn_to_play, last_dir, half_moves>>
          /\ (op = "reset_visited_pos" => UNCHANGED Fields)]_vars

C9_Witness ==
    /\ op = "reset_visited_pos"
    /\ ret = NoResult
    /\ last_dir = "SE"
    /\ board_state = StartGrid
    /\ half_moves = 10
    /\ AllFalse(visited)

\* one row of the board field against the cells of its row of the grid
RowEncoded(str, cells) ==
    /\ str # <<>>
    /\ \A i \in 1..Len(str) : str[i] \in RowChars \ {"0"}
    /\ \A i \in 1..(Len(str) - 1) : ~(IsDigit(str[i]) /\ IsDigit(str[i + 1]))
    /\ ExpandRow(str) = cells

\* C10: the board field of get_board_str has BOARD_ROWS rows separated by
\* "/"; each row has a letter per piece in column order and one count per
\* maximal run of empty cells, never 0, never two counts in a row, and the
\* row stands for exactly the cells of its row of the grid.
C10_BoardField ==
    (op = "get_board_str" /\ ret.kind = "str")
    => LET rows == Split(Split(ret.val, " ")[1], "/") IN
       /\ Len(rows) = BOARD_ROWS
       /\ \A r \in 1..Len(rows) : RowEncoded(rows[r], board_state[r])

C10_Witness ==
    /\ op = "get_board_str"
    /\ ret.kind = "str"
    /\ board_state = RunsGrid
    /\ Split(Split(ret.val, " ")[1], "/")[3] = <<"9">>

====
